---------------------------- MODULE Spec2Model ----------------------------
(***************************************************************************)
(* A model of the stream filter decode engine (pdf/src/enc.rs), the font   *)
(* schema and its width table (pdf/src/font.rs) and the error taxonomy     *)
(* (pdf/src/error.rs) of pdf-rs.                                           *)
(*                                                                         *)
(* Every component has its own specification (SpecWidths, SpecHex, ...).   *)
(* A specification runs one component; the variables of the others keep   *)
(* their idle value.                                                       *)
(*                                                                         *)
(* A fallible function returns a record: Ok(v), Err(e) with e.kind the     *)
(* PdfError variant, or Panic (a Rust panic: an index or a slice out of    *)
(* range, a failed assert!, an arithmetic overflow).                       *)
(***************************************************************************)
EXTENDS Integers, Sequences, FiniteSets, TLC

VARIABLES
    widths,          \* struct Widths { values, default, first_char }
    inserted,        \* history: code -> the width of the last set(code, width)
    hex_data,        \* decode_hex: the input
    hex_result,      \* decode_hex: what it returned
    a85_src,         \* the bytes that were base-85 encoded (<<>> for a raw input)
    a85_data,        \* decode_85: the input
    a85_result,      \* decode_85: what it returned
    png,             \* unfilter: its arguments filter, bpp, prev, inp, out
    png_unfiltered,  \* unfilter: the row it left in out
    png_filtered,    \* filter: the row it left in current
    fl_params,       \* flate_decode: params
    fl_inflated,     \* flate_decode: what the inflate crate made of data
    fl,              \* flate_decode: inp, out, in_off, out_off, last_out_off
    fl_pc,           \* flate_decode: "begin", "loop" or "done"
    fl_result,       \* flate_decode: what it returned
    dec_kind,        \* from_kind_and_params: kind
    dec_params,      \* from_kind_and_params: params
    dec_data,        \* decode: data
    dec_lib,         \* decode: what the inflate or jpeg_decoder crate makes of data
    dec_filter,      \* what from_kind_and_params returned
    dec_result,      \* what decode returned
    standard_fonts,  \* whether feature "standard-fonts" is on
    font_dict,       \* Font::from_primitive: the dictionary
    font_pc,         \* Font::from_primitive: the statement it is at
    font_read,       \* the keys of the dictionary read so far
    font_base_font,  \* Font::from_primitive: base_font
    font_subtype,    \* Font::from_primitive: subtype
    font_result,     \* what Font::from_primitive returned
    cm_checks,       \* parse_cmap: whether the build checks integer overflow
    cm_pc,           \* parse_cmap: the call it is at
    cm_a,            \* parse_cmap: a, the first operand of the group
    cm_b,            \* parse_cmap: b, the second operand of the group
    cm_map,          \* parse_cmap: map
    cm_count,        \* the tokens of data taken so far
    cm_eof,          \* whether the lexer has reached the end of data
    cm_entry,        \* history: the last operand group matched, and map before it
    cm_lost,         \* history: what parse_with_lexer consumed as an operand
    cm_result,       \* what parse_cmap returned
    fw_malformed,    \* history: Font::widths read an entry of neither shape
    fw_result,       \* what Font::widths returned
    col_p,           \* ColorSpace::from_primitive: p
    col_result,      \* what ColorSpace::from_primitive returned
    pa_in,           \* filter_paeth: a, b, c
    pa_out           \* what filter_paeth returned

widthsVars == <<widths, inserted>>
hexVars    == <<hex_data, hex_result>>
a85Vars    == <<a85_src, a85_data, a85_result>>
pngVars    == <<png, png_unfiltered, png_filtered>>
flateVars  == <<fl_params, fl_inflated, fl, fl_pc, fl_result>>
decVars    == <<dec_kind, dec_params, dec_data, dec_lib, dec_filter, dec_result>>
fontVars   == <<standard_fonts, font_dict, font_pc, font_read, font_base_font,
               font_subtype, font_result>>
cmapVars   == <<cm_checks, cm_pc, cm_a, cm_b, cm_map, cm_count, cm_eof, cm_entry,
               cm_lost, cm_result>>
fwVars     == <<fw_malformed, fw_result>>
colorVars  == <<col_p, col_result>>
paethVars  == <<pa_in, pa_out>>
vars       == <<widthsVars, hexVars, a85Vars, pngVars, flateVars, decVars, fontVars,
               cmapVars, fwVars, colorVars, paethVars>>

\* what an action of one component leaves alone
notWidths == <<hexVars, a85Vars, pngVars, flateVars, decVars, fontVars, cmapVars, fwVars, colorVars,
               paethVars>>
notHex    == <<widthsVars, a85Vars, pngVars, flateVars, decVars, fontVars, cmapVars, fwVars, colorVars,
               paethVars>>
notA85    == <<widthsVars, hexVars, pngVars, flateVars, decVars, fontVars, cmapVars, fwVars, colorVars,
               paethVars>>
notPng    == <<widthsVars, hexVars, a85Vars, flateVars, decVars, fontVars, cmapVars, fwVars, colorVars,
               paethVars>>
notFlate  == <<widthsVars, hexVars, a85Vars, pngVars, decVars, fontVars, cmapVars, fwVars, colorVars,
               paethVars>>
notDec    == <<widthsVars, hexVars, a85Vars, pngVars, flateVars, fontVars, cmapVars, fwVars, colorVars,
               paethVars>>
notFont   == <<widthsVars, hexVars, a85Vars, pngVars, flateVars, decVars, cmapVars, fwVars, colorVars,
               paethVars>>
notCMap   == <<widthsVars, hexVars, a85Vars, pngVars, flateVars, decVars, fontVars, fwVars, colorVars,
               paethVars>>
notFontWidths == <<hexVars, a85Vars, pngVars, flateVars, decVars, fontVars, cmapVars,
                   colorVars,
               paethVars>>
notColor  == <<widthsVars, hexVars, a85Vars, pngVars, flateVars, decVars, fontVars,
               cmapVars, fwVars,
               paethVars>>
notPaeth  == <<widthsVars, hexVars, a85Vars, pngVars, flateVars, decVars, fontVars,
               cmapVars, fwVars, colorVars>>

-----------------------------------------------------------------------------
(* Results *)

Pending  == [tag |-> "Pending"]
Ok(v)    == [tag |-> "Ok", val |-> v]
Err(e)   == [tag |-> "Err", err |-> e]
Panic    == [tag |-> "Panic"]

\* n copies of x: std::iter::repeat(x).take(n)
repeat(x, n) == [i \in 1..n |-> x]

-----------------------------------------------------------------------------
(* Widths: font.rs *)

MaxCode == 4

Codes      == 0..MaxCode
Defaults   == {0, 3}
WidthVals  == {1, 2}

WidthsIdle == widths = [values |-> <<>>, default |-> 0, first_char |-> 0] /\ inserted = <<>>

\* Widths::new
Widths_new(default) == [values |-> <<>>, default |-> default, first_char |-> 0]

\* Widths::get; values.get(i) is values[i + 1] here, None past the end
Widths_get(w, cid) ==
    IF cid < w.first_char
    THEN w.default
    ELSE IF cid - w.first_char < Len(w.values)
         THEN w.values[cid - w.first_char + 1]
         ELSE w.default

\* Widths::ensure_capacity: Vec::reserve changes the capacity only, never the
\* length or the contents
Widths_ensure_capacity(w, n) == w

\* Widths::set, the branch  cid - first_char > values.len()
Widths_set_past_end(w, cid, width) ==
    LET w1 == Widths_ensure_capacity(w, cid - w.first_char)
    IN  [w1 EXCEPT !.values = w1.values
                      \o repeat(w1.default, cid - w1.first_char - 1)
                      \o <<width>>]

\* Widths::set, the branch  cid < first_char
Widths_set_before(w, cid, width) ==
    LET spliced == repeat(w.default, w.first_char - cid) \o w.values
    IN  [w EXCEPT !.values = [spliced EXCEPT ![1] = width],
                  !.first_char = cid]

\* Widths::set
Widths_set(w, cid, width) ==
    IF Len(w.values) = 0
    THEN [w EXCEPT !.first_char = cid, !.values = <<width>>]
    ELSE IF cid = w.first_char + Len(w.values)
    THEN [w EXCEPT !.values = Append(w.values, width)]
    ELSE IF cid < w.first_char
    THEN Widths_set_before(w, cid, width)
    ELSE IF cid - w.first_char > Len(w.values)
    THEN Widths_set_past_end(w, cid, width)
    ELSE [w EXCEPT !.values[cid - w.first_char + 1] = width]

WidthsInit ==
    /\ \E d \in Defaults : widths = Widths_new(d)
    /\ inserted = <<>>

\* one call of Widths::set, as Font::widths makes them
Set(cid, width) ==
    /\ widths' = Widths_set(widths, cid, width)
    /\ inserted' = [c \in DOMAIN inserted \cup {cid} |->
                        IF c = cid THEN width ELSE inserted[c]]
    /\ UNCHANGED notWidths

WidthsNext == \E cid \in Codes, width \in WidthVals : Set(cid, width)

-----------------------------------------------------------------------------
(* Option<T> *)

None    == [tag |-> "None"]
Some(v) == [tag |-> "Some", val |-> v]

(* u8 arithmetic *)

wrapping_add(a, b) == (a + b) % 256
wrapping_sub(a, b) == (a - b + 256) % 256

\* a << n on u8: the bits shifted out are lost
shl8(a, n) == (a * (2 ^ n)) % 256

RECURSIVE BitOr(_, _)
\* a | b
BitOr(a, b) ==
    IF a = 0 THEN b
    ELSE IF b = 0 THEN a
    ELSE 2 * BitOr(a \div 2, b \div 2) + (IF a % 2 = 1 \/ b % 2 = 1 THEN 1 ELSE 0)

\* data[from..], 0-based as in Rust (from <= data.len())
SliceFrom(data, from) == SubSeq(data, from + 1, Len(data))

\* all sequences over S of length at most n
SeqsUpTo(S, n) == UNION {[1..k -> S] : k \in 0..n}

-----------------------------------------------------------------------------
(* ASCIIHexDecode: enc.rs *)

MaxHexLen == 4

\* '0' '9' 'F' 'G' 'a' 'f' 'g' 'i'
HexSample == {48, 57, 70, 71, 97, 102, 103, 105}

HexIdle == hex_data = <<>> /\ hex_result = Pending

\* decode_nibble
decode_nibble(c) ==
    IF c >= 48 /\ c <= 57 THEN Some(c - 48)
    ELSE IF c >= 97 /\ c <= 104 THEN Some(c - 97 + 10)
    ELSE IF c >= 65 /\ c <= 72 THEN Some(c - 65 + 10)
    ELSE None

RECURSIVE decode_hex_from(_, _, _)
\* decode_hex, the loop from pair i on: data.iter().tuples() yields the pairs
\* (data[2i], data[2i+1]) and leaves out a last byte that has no partner
decode_hex_from(data, i, out) ==
    IF 2 * i + 2 > Len(data)
    THEN Ok(out)
    ELSE LET high == data[2 * i + 1]
             low  == data[2 * i + 2]
         IN  IF decode_nibble(low) # None /\ decode_nibble(high) # None
             THEN decode_hex_from(data, i + 1,
                      Append(out, BitOr(shl8(decode_nibble(high).val, 4),
                                        decode_nibble(low).val)))
             ELSE Err([kind |-> "HexDecode", pos |-> i * 2, bytes |-> <<high, low>>])

\* decode_hex
decode_hex(data) == decode_hex_from(data, 0, <<>>)

HexInit ==
    /\ hex_data \in SeqsUpTo(HexSample, MaxHexLen)
    /\ hex_result = Pending

DecodeHex ==
    /\ hex_result = Pending
    /\ hex_result' = decode_hex(hex_data)
    /\ UNCHANGED <<hex_data, notHex>>

HexNext == DecodeHex

-----------------------------------------------------------------------------
(* ASCII85Decode: enc.rs *)

MaxSrc85  == 5
MaxData85 == 5

\* '!' '>' 'u' 'v' 'z' '~'
A85Sample == {33, 62, 117, 118, 122, 126}
SrcSample == {0, 1, 255}

A85Idle == a85_src = <<>> /\ a85_data = <<>> /\ a85_result = Pending

\* sym_85
sym_85(byte) == IF byte >= 33 /\ byte <= 117 THEN Some(byte - 33) ELSE None

\* word_85: Some(<<advance, word>>), None, or Panic where input[1..5] is out
\* of range
word_85(input) ==
    IF Len(input) = 0 THEN None
    ELSE IF input[1] = 122 THEN Some(<<1, <<0, 0, 0, 0>> >>)
    ELSE IF Len(input) < 5 THEN Panic
    ELSE LET a == input[1]
             b == input[2]
             c == input[3]
             d == input[4]
             e == input[5]
         IN  IF \/ sym_85(a) = None \/ sym_85(b) = None
                \/ sym_85(c) = None \/ sym_85(d) = None
             THEN None
             ELSE LET q == ((((sym_85(a).val * 85) + sym_85(b).val * 85)
                               + sym_85(c).val * 85)
                               + sym_85(d).val * 85)
                               + e
                  IN  Some(<<5, << (q \div 16777216) % 256, (q \div 65536) % 256,
                                   (q \div 256) % 256, q % 256 >> >>)

\* substr: the offset of the first occurrence of needle in data
substr(data, needle) ==
    LET hits == {i \in 0..(Len(data) - Len(needle)) :
                    SubSeq(data, i + 1, i + Len(needle)) = needle}
    IN  IF hits = {} THEN None
        ELSE Some(CHOOSE i \in hits : \A j \in hits : i <= j)

RECURSIVE decode_85_loop(_, _, _)
\* decode_85, the  while let Some((advance, word)) = word_85(&data[pos..])
\* loop: where it stands when word_85 returns None, Panic when it panics
decode_85_loop(data, pos, out) ==
    LET w == word_85(SliceFrom(data, pos))
    IN  IF w = Panic THEN Panic
        ELSE IF w = None THEN [tag |-> "End", pos |-> pos, out |-> out]
        ELSE decode_85_loop(data, pos + w.val[1], out \o w.val[2])

\* decode_85
decode_85(data) ==
    LET l == decode_85_loop(data, 0, <<>>)
    IN  IF l = Panic THEN Panic
        ELSE
        LET pos == l.pos
            out == l.out
            t   == substr(SliceFrom(data, pos), <<126, 62>>)
        IN  IF t = None THEN Err([kind |-> "Ascii85TailError"])
            ELSE
            LET tail_len == t.val
            IN  IF ~(tail_len < 5) THEN Panic
                ELSE IF Len(data) < pos + tail_len
                THEN Err([kind |-> "Ascii85TailError"])
                ELSE
                LET tail == SubSeq(data, pos + 1, pos + tail_len)
                                \o repeat(117, 5 - tail_len)
                    last == word_85(tail)
                IN  IF last = Panic THEN Panic
                    ELSE IF last = None THEN Err([kind |-> "Ascii85TailError"])
                    ELSE IF tail_len - 1 < 0 THEN Panic
                    ELSE Ok(out \o SubSeq(last.val[2], 1, tail_len - 1))

RECURSIVE div_85(_, _, _)
\* a big-endian number divided by 85, byte by byte: its quotient (as bytes)
\* and its remainder
div_85(g, i, acc) ==
    IF i > Len(g) THEN acc
    ELSE LET n == acc.rem * 256 + g[i]
         IN  div_85(g, i + 1, [quot |-> Append(acc.quot, n \div 85), rem |-> n % 85])

RECURSIVE digits_from(_, _)
\* the k lowest base-85 digits of a big-endian number, most significant first
digits_from(g, k) ==
    IF k = 0 THEN <<>>
    ELSE LET d == div_85(g, 1, [quot |-> <<>>, rem |-> 0])
         IN  Append(digits_from(d.quot, k - 1), d.rem)

\* the 5 symbols of a group of up to 4 bytes, padded with zero bytes
digits_85(g) ==
    LET d == digits_from(g \o repeat(0, 4 - Len(g)), 5)
    IN  [i \in 1..5 |-> d[i] + 33]

RECURSIVE encode_groups(_)
\* the standard encoding without its terminator
encode_groups(b) ==
    IF Len(b) = 0 THEN <<>>
    ELSE IF Len(b) < 4 THEN SubSeq(digits_85(b), 1, Len(b) + 1)
    ELSE LET g == SubSeq(b, 1, 4)
         IN  (IF g = <<0, 0, 0, 0>> THEN <<122>> ELSE digits_85(g))
                 \o encode_groups(SubSeq(b, 5, Len(b)))

\* base85_encode: the groups, then '~>'
encode_85(b) == encode_groups(b) \o <<126, 62>>

\* whether data holds the terminator '~>'
has_terminator(data) == substr(data, <<126, 62>>) # None

A85Init ==
    /\ \/ /\ a85_src \in SeqsUpTo(SrcSample, MaxSrc85)
          /\ a85_data = encode_85(a85_src)
       \/ /\ a85_src = <<>>
          /\ a85_data \in SeqsUpTo(A85Sample, MaxData85)
    /\ a85_result = Pending

Decode85 ==
    /\ a85_result = Pending
    /\ a85_result' = decode_85(a85_data)
    /\ UNCHANGED <<a85_src, a85_data, notA85>>

A85Next == Decode85

-----------------------------------------------------------------------------
(* The PNG predictors: enc.rs *)

\* PredictorType, by discriminant
PredictorTypes == {"NoFilter", "Sub", "Up", "Avg", "Paeth"}

\* PredictorType::from_u8
PredictorType_from_u8(n) ==
    IF n = 0 THEN Ok("NoFilter")
    ELSE IF n = 1 THEN Ok("Sub")
    ELSE IF n = 2 THEN Ok("Up")
    ELSE IF n = 3 THEN Ok("Avg")
    ELSE IF n = 4 THEN Ok("Paeth")
    ELSE Err([kind |-> "IncorrectPredictorType", n |-> n])

abs(x) == IF x < 0 THEN -x ELSE x

\* filter_paeth with < for <= : a tie goes to the later argument
filter_paeth_strict(a, b, c) ==
    LET p  == a + b - c
        pa == abs(p - a)
        pb == abs(p - b)
        pc == abs(p - c)
    IN  IF pa < pb /\ pa < pc THEN a
        ELSE IF pb < pc THEN b
        ELSE c

\* filter_paeth; the i16 values stay within -255..510
filter_paeth(a, b, c) ==
    LET p  == a + b - c
        pa == abs(p - a)
        pb == abs(p - b)
        pc == abs(p - c)
    IN  IF pa <= pb /\ pa <= pc THEN a
        ELSE IF pb <= pc THEN b
        ELSE c

\* Rows are 1-based here: Rust's row[i] is row[i + 1].
\* InRow(row, i): whether row[i] is inside the row
InRow(row, i) == i >= 0 /\ i < Len(row)

RECURSIVE unfilter_head(_, _, _, _, _, _)
\* unfilter, the loops  for i in 0..bpp  of Avg and Paeth, from i on
unfilter_head(filter, bpp, prev, inp, out, i) ==
    IF i >= bpp THEN Ok(out)
    ELSE IF ~(InRow(out, i) /\ InRow(inp, i) /\ InRow(prev, i)) THEN Panic
    ELSE unfilter_head(filter, bpp, prev, inp,
             [out EXCEPT ![i + 1] =
                 IF filter = "Avg"
                 THEN wrapping_add(inp[i + 1], prev[i + 1] \div 2)
                 ELSE wrapping_add(inp[i + 1], filter_paeth(0, prev[i + 1], 0))],
             i + 1)

RECURSIVE unfilter_body(_, _, _, _, _, _, _)
\* unfilter, the loops  for i in from..len  of each predictor, from i on
\* (from is 0 for NoFilter and Up, bpp for Sub, Avg and Paeth)
unfilter_body(filter, bpp, prev, inp, out, len, i) ==
    IF i >= len THEN Ok(out)
    ELSE LET v == CASE filter = "NoFilter" -> inp[i + 1]
                    [] filter = "Sub" ->
                         wrapping_add(inp[i + 1], out[i - bpp + 1])
                    [] filter = "Up" ->
                         wrapping_add(inp[i + 1], prev[i + 1])
                    [] filter = "Avg" ->
                         wrapping_add(inp[i + 1],
                             ((out[i - bpp + 1] + prev[i + 1]) \div 2) % 256)
                    [] filter = "Paeth" ->
                         wrapping_add(inp[i + 1],
                             filter_paeth(out[i - bpp + 1], prev[i + 1],
                                          prev[i - bpp + 1]))
         IN  unfilter_body(filter, bpp, prev, inp,
                           [out EXCEPT ![i + 1] = v], len, i + 1)

\* unfilter: Ok(out) with the row it leaves in out, or Panic
unfilter(filter, bpp, prev, inp, out) ==
    LET len == Len(inp)
    IN  IF len # Len(out) \/ len # Len(prev) THEN Panic
        ELSE IF filter \in {"NoFilter", "Up"}
        THEN unfilter_body(filter, bpp, prev, inp, out, len, 0)
        ELSE IF filter = "Sub"
        THEN unfilter_body(filter, bpp, prev, inp, out, len, bpp)
        ELSE LET h == unfilter_head(filter, bpp, prev, inp, out, 0)
             IN  IF h = Panic THEN Panic
                 ELSE unfilter_body(filter, bpp, prev, inp, h.val, len, bpp)

RECURSIVE filter_tail(_, _, _, _, _)
\* filter, the loops  for i in (bpp..len).rev()  of Sub, Avg and Paeth, from
\* i down
filter_tail(method, bpp, previous, current, i) ==
    IF i < bpp THEN Ok(current)
    ELSE IF method # "Sub" /\ ~InRow(previous, i) THEN Panic
    ELSE LET v == CASE method = "Sub" ->
                         wrapping_sub(current[i + 1], current[i - bpp + 1])
                    [] method = "Avg" ->
                         wrapping_sub(current[i + 1],
                             wrapping_add(current[i - bpp + 1], previous[i + 1])
                                 \div 2)
                    [] method = "Paeth" ->
                         wrapping_sub(current[i + 1],
                             filter_paeth(current[i - bpp + 1], previous[i + 1],
                                          previous[i - bpp + 1]))
         IN  filter_tail(method, bpp, previous,
                         [current EXCEPT ![i + 1] = v], i - 1)

RECURSIVE filter_head(_, _, _, _, _, _)
\* filter, the loops  for i in 0..to  (to is len for Up, bpp for Avg and
\* Paeth), from i on
filter_head(method, to, previous, current, len, i) ==
    IF i >= to THEN Ok(current)
    ELSE IF ~(InRow(current, i) /\ InRow(previous, i)) THEN Panic
    ELSE LET v == CASE method = "Up" ->
                         wrapping_sub(current[i + 1], previous[i + 1])
                    [] method = "Avg" ->
                         wrapping_sub(current[i + 1], previous[i + 1] \div 2)
                    [] method = "Paeth" ->
                         wrapping_sub(current[i + 1],
                             filter_paeth(0, previous[i + 1], 0))
         IN  filter_head(method, to, previous,
                         [current EXCEPT ![i + 1] = v], len, i + 1)

\* filter: Ok(current) with the row it leaves in current, or Panic
filter(method, bpp, previous, current) ==
    LET len == Len(current)
    IN  IF method = "NoFilter" THEN Ok(current)
        ELSE IF method = "Sub"
        THEN filter_tail(method, bpp, previous, current, len - 1)
        ELSE IF method = "Up"
        THEN filter_head(method, len, previous, current, len, 0)
        ELSE LET t == filter_tail(method, bpp, previous, current, len - 1)
             IN  IF t = Panic THEN Panic
                 ELSE filter_head(method, bpp, previous, t.val, len, 0)

MaxRow == 2

PngSample == {0, 1, 255}
BppSample == {1, 2, 3}

PngIdle ==
    /\ png = [filter |-> "NoFilter", bpp |-> 1, prev |-> <<>>, inp |-> <<>>, out |-> <<>>]
    /\ png_unfiltered = Pending
    /\ png_filtered = Pending

\* rows of equal length; out holds zeros (as flate_decode passes it) or
\* something else
PngInit ==
    /\ \E n \in 0..MaxRow :
          png \in [filter : PredictorTypes, bpp : BppSample,
                   prev : [1..n -> PngSample], inp : [1..n -> PngSample],
                   out : {repeat(0, n), repeat(7, n)}]
    /\ png_unfiltered = Pending
    /\ png_filtered = Pending

Unfilter ==
    /\ png_unfiltered = Pending
    /\ png_unfiltered' = unfilter(png.filter, png.bpp, png.prev, png.inp, png.out)
    /\ UNCHANGED <<png, png_filtered, notPng>>

Filter ==
    /\ png_unfiltered.tag = "Ok"
    /\ png_filtered = Pending
    /\ png_filtered' = filter(png.filter, png.bpp, png.prev, png_unfiltered.val)
    /\ UNCHANGED <<png, png_unfiltered, notPng>>

PngNext == Unfilter \/ Filter

-----------------------------------------------------------------------------
(* FlateDecode: enc.rs *)

\* LZWFlateParams, with the defaults of its #[pdf(default = ...)] attributes
LZWFlateParams(predictor, n_components, bits_per_component, columns) ==
    [predictor |-> predictor, n_components |-> n_components,
     bits_per_component |-> bits_per_component, columns |-> columns,
     early_change |-> 1]

\* The inflate crate is not part of the repository: what inflate_bytes_zlib,
\* then inflate_bytes, make of the data is an input of the model, Ok(bytes) or
\* LibFails.
LibFails == [tag |-> "Err", err |-> [kind |-> "library"]]

\* inflate_bytes fails with a String, which `?` turns into PdfError::Other
\* (impl From<String> for PdfError)
InflateError == Err([kind |-> "Other", msg |-> "inflate"])

\* slice[from..to] of a buffer, 0-based and half-open: Panic when out of range
Slice(buf, from, to) ==
    IF from <= to /\ to <= Len(buf) THEN Ok(SubSeq(buf, from + 1, to)) ELSE Panic

\* buf with buf[at..at + Len(row)] = row
Overwrite(buf, at, row) ==
    [i \in 1..Len(buf) |->
        IF i > at /\ i <= at + Len(row) THEN row[i - at] ELSE buf[i]]

\* flate_decode, the stride it hands to unfilter
flate_bpp(params) == params.n_components

\* flate_decode before its loop, predictor > 10: the locals
flate_begin(decoded, params) ==
    LET columns == params.columns
        rows    == Len(decoded) \div (columns + 1)
    IN  [inp |-> decoded, out |-> repeat(0, rows * columns),
         in_off |-> 0, out_off |-> 0, last_out_off |-> 0]

\* flate_prev_row as it would be if every row were unfiltered against null_vec
flate_prev_row_null(st, columns) == Ok(repeat(0, columns))

\* the previous row of one iteration: null_vec, or prev[last_out_off..] of
\* out.split_at_mut(out_off)
flate_prev_row(st, columns) ==
    IF st.out_off = 0
    THEN Ok(repeat(0, columns))
    ELSE IF st.out_off > Len(st.out) THEN Panic
    ELSE Slice(st.out, st.last_out_off, st.out_off)

\* flate_decode, one iteration of  while in_off < inp.len() : the locals after
\* it ([tag |-> "Ok", val |-> locals]), the error of `?`, or Panic
flate_row(st, params) ==
    LET columns   == params.columns
        predictor == PredictorType_from_u8(st.inp[st.in_off + 1])
        in_off    == st.in_off + 1
        row_in    == Slice(st.inp, in_off, in_off + columns)
        prev_row  == flate_prev_row(st, columns)
        row_out   == Slice(st.out, st.out_off, st.out_off + columns)
    IN  IF predictor.tag = "Err" THEN predictor
        ELSE IF row_in = Panic \/ prev_row = Panic \/ row_out = Panic THEN Panic
        ELSE LET u == unfilter(predictor.val, flate_bpp(params),
                               prev_row.val, row_in.val, row_out.val)
             IN  IF u = Panic THEN Panic
                 ELSE Ok([st EXCEPT !.out = Overwrite(st.out, st.out_off, u.val),
                                    !.last_out_off = st.out_off,
                                    !.in_off = in_off + columns,
                                    !.out_off = st.out_off + columns])

RECURSIVE flate_rows(_, _)
\* flate_decode, its loop to the end
flate_rows(st, params) ==
    IF ~(st.in_off < Len(st.inp)) THEN Ok(st.out)
    ELSE LET r == flate_row(st, params)
         IN  IF r.tag = "Ok" THEN flate_rows(r.val, params) ELSE r

\* flate_decode, given what the inflate crate made of the data
flate_decode(inflated, params) ==
    IF inflated.tag = "Err" THEN InflateError
    ELSE IF params.predictor > 10
    THEN flate_rows(flate_begin(inflated.val, params), params)
    ELSE Ok(inflated.val)

MaxInflated == 5

FlateSample     == {0, 2, 4, 7}
ColumnsSample   == {0, 1, 2}
ComponentSample == {1, 2, 3}
BitsSample      == {8, 16}

\* predictor 15, 3 components, 8 bits, 3 columns; rows [4,10,20,30], [4,1,1,1]
ScenarioParams   == LZWFlateParams(15, 3, 8, 3)
ScenarioInflated == <<4, 10, 20, 30, 4, 1, 1, 1>>

\* three rows of one column: Up, Up, Paeth
ThreeRowParams   == LZWFlateParams(12, 1, 8, 1)
ThreeRowInflated == <<2, 2, 2, 4, 4, 7>>

FlateIdle ==
    /\ fl_params = LZWFlateParams(1, 1, 8, 1)
    /\ fl_inflated = LibFails
    /\ fl = flate_begin(<<>>, LZWFlateParams(1, 1, 8, 1))
    /\ fl_pc = "idle"
    /\ fl_result = Pending

FlateInit ==
    /\ \/ /\ fl_params \in {LZWFlateParams(1, 1, 8, 1)} \cup
                  {LZWFlateParams(15, n, b, c) :
                      n \in ComponentSample, b \in BitsSample, c \in ColumnsSample}
          /\ fl_inflated \in {LibFails} \cup
                  {Ok(d) : d \in SeqsUpTo(FlateSample, MaxInflated)}
       \/ /\ fl_params = ScenarioParams
          /\ fl_inflated = Ok(ScenarioInflated)
       \/ /\ fl_params = ThreeRowParams
          /\ fl_inflated = Ok(ThreeRowInflated)
    /\ fl = flate_begin(<<>>, fl_params)
    /\ fl_pc = "begin"
    /\ fl_result = Pending

\* flate_decode up to its loop
FlateBegin ==
    /\ fl_pc = "begin"
    /\ IF fl_inflated.tag = "Err"
       THEN fl_result' = InflateError /\ fl_pc' = "done" /\ UNCHANGED fl
       ELSE IF fl_params.predictor > 10
       THEN /\ fl' = flate_begin(fl_inflated.val, fl_params)
            /\ fl_pc' = "loop"
            /\ UNCHANGED fl_result
       ELSE fl_result' = Ok(fl_inflated.val) /\ fl_pc' = "done" /\ UNCHANGED fl
    /\ UNCHANGED <<fl_params, fl_inflated, notFlate>>

\* one iteration of the loop
FlateRow ==
    /\ fl_pc = "loop"
    /\ fl.in_off < Len(fl.inp)
    /\ LET r == flate_row(fl, fl_params)
       IN  IF r.tag = "Ok"
           THEN fl' = r.val /\ UNCHANGED <<fl_pc, fl_result>>
           ELSE fl_result' = r /\ fl_pc' = "done" /\ UNCHANGED fl
    /\ UNCHANGED <<fl_params, fl_inflated, notFlate>>

\* the loop ends: Ok(out)
FlateEnd ==
    /\ fl_pc = "loop"
    /\ ~(fl.in_off < Len(fl.inp))
    /\ fl_result' = Ok(fl.out)
    /\ fl_pc' = "done"
    /\ UNCHANGED <<fl, fl_params, fl_inflated, notFlate>>

FlateNext == FlateBegin \/ FlateRow \/ FlateEnd

-----------------------------------------------------------------------------
(* StreamFilter and decode: enc.rs, error.rs *)

\* bail!: PdfError::Other with a formatted message
bail(msg) == Err([kind |-> "Other", msg |-> msg])

\* unimplemented!: the crate's own macro, a bail! with the place
unimplemented == bail("Unimplemented")

\* the names StreamFilter::from_kind_and_params knows
FilterNames ==
    {"ASCIIHexDecode", "ASCII85Decode", "LZWDecode", "FlateDecode", "JPXDecode",
     "DCTDecode", "CCITTFaxDecode", "Crypt"}

\* the variants of StreamFilter that carry parameters
WithLZWFlateParams == {"LZWDecode", "FlateDecode"}

\* LZWFlateParams::from_primitive and DCTDecodeParams::from_primitive (derived):
\* the parameters, or an error for a dictionary that does not fit
Params_from_primitive(params) ==
    IF params = [bad |-> TRUE] THEN Err([kind |-> "FromPrimitive"]) ELSE Ok(params)

\* StreamFilter::from_kind_and_params
from_kind_and_params(kind, params) ==
    IF kind \in WithLZWFlateParams \cup {"DCTDecode"}
    THEN LET p == Params_from_primitive(params)
         IN  IF p.tag = "Err" THEN p
             ELSE Ok([name |-> kind, params |-> p.val])
    ELSE IF kind \in FilterNames
    THEN Ok([name |-> kind])
    ELSE bail("Unrecognized filter type")

\* dct_decode, given what the jpeg_decoder crate made of the data: its error
\* becomes PdfError::Jpeg (err_from!)
dct_decode(decoded) ==
    IF decoded.tag = "Err" THEN Err([kind |-> "Jpeg"]) ELSE decoded

\* decode_other as it would be if an unimplemented filter passed the data on
decode_passes_through(data) == Ok(data)

\* decode, the arm  _ => unimplemented!()
decode_other(data) == unimplemented

\* decode; lib is what the inflate or the jpeg_decoder crate makes of data
decode(data, stream_filter, lib) ==
    CASE stream_filter.name = "ASCIIHexDecode" -> decode_hex(data)
      [] stream_filter.name = "ASCII85Decode" -> decode_85(data)
      [] stream_filter.name = "FlateDecode" -> flate_decode(lib, stream_filter.params)
      [] stream_filter.name = "DCTDecode" -> dct_decode(lib)
      [] OTHER -> decode_other(data)

\* the filters whose decoding is not implemented
Unimplemented == {"LZWDecode", "JPXDecode", "CCITTFaxDecode", "Crypt"}

MaxDecLen == 2

\* '0' '>' 'g' '~'
DecSample == {48, 62, 103, 126}
KindSample == FilterNames \cup {"RunLengthDecode"}
ParamsSample ==
    {[bad |-> TRUE], LZWFlateParams(1, 1, 8, 1), LZWFlateParams(12, 1, 8, 1)}
LibSample == {LibFails, Ok(<<>>), Ok(<<2, 7>>)}

DecIdle ==
    /\ dec_kind = "Crypt"
    /\ dec_params = [bad |-> TRUE]
    /\ dec_data = <<>>
    /\ dec_lib = LibFails
    /\ dec_filter = Pending
    /\ dec_result = Pending

DecInit ==
    /\ dec_kind \in KindSample
    /\ dec_params \in ParamsSample
    /\ dec_data \in SeqsUpTo(DecSample, MaxDecLen)
    /\ dec_lib \in LibSample
    /\ dec_filter = Pending
    /\ dec_result = Pending

FromKindAndParams ==
    /\ dec_filter = Pending
    /\ dec_filter' = from_kind_and_params(dec_kind, dec_params)
    /\ UNCHANGED <<dec_kind, dec_params, dec_data, dec_lib, dec_result, notDec>>

Decode ==
    /\ dec_filter.tag = "Ok"
    /\ dec_result = Pending
    /\ dec_result' = decode(dec_data, dec_filter.val, dec_lib)
    /\ UNCHANGED <<dec_kind, dec_params, dec_data, dec_lib, dec_filter, notDec>>

DecNext == FromKindAndParams \/ Decode

-----------------------------------------------------------------------------
(* Font::from_primitive: font.rs *)

\* enum FontType
FontTypes ==
    {"Type0", "Type1", "MMType1", "Type3", "TrueType", "CIDFontType0", "CIDFontType2"}

\* the names of STANDARD_FONTS under feature "standard-fonts"
StandardNames ==
    {"Courier", "Courier-Bold", "Courier-Oblique", "Courier-BoldOblique",
     "Times-Roman", "Times-Bold", "Times-Italic", "Times-BoldItalic",
     "Helvetica", "Helvetica-Bold", "Helvetica-Oblique", "Helvetica-BoldOblique",
     "Symbol", "ZapfDingbats", "Arial-BoldMT", "ArialMT", "Arial-ItalicMT"}

\* STANDARD_FONTS: empty without the feature
STANDARD_FONTS(feature) == IF feature THEN StandardNames ELSE {}

\* A font dictionary, entry by entry. "absent": no such key; "Integer": a
\* value that is no name; "bad": a value its type cannot be built from.
FontDicts ==
    [Type : {"absent", "Font", "Page"},
     BaseFont : {"absent", "Integer", "Helvetica", "helvetica", "Foo"},
     Subtype : {"absent", "Integer", "Bogus"} \cup FontTypes,
     Encoding : {"absent", "ok", "bad"},
     ToUnicode : {"absent", "ok", "bad"},
     FontDescriptor : {"absent", "ok", "bad"},
     FontFile : BOOLEAN,
     Rest : {"ok", "bad"}]

MissingEntry(typ, field) == Err([kind |-> "MissingEntry", typ |-> typ, field |-> field])

\* Dictionary::expect(typ, key, value, required) on the entry found
Dictionary_expect(typ, key, value, required, found) ==
    IF found = "absent"
    THEN IF required THEN MissingEntry(typ, key) ELSE Ok(found)
    ELSE IF found = value THEN Ok(found)
    ELSE Err([kind |-> "KeyValueMismatch", key |-> key, value |-> value,
              found |-> found])

\* Dictionary::require(typ, key) on the entry found
Dictionary_require(typ, key, found) ==
    IF found = "absent" THEN MissingEntry(typ, key) ELSE Ok(found)

\* Primitive::to_name
to_name(p) ==
    IF p = "Integer"
    THEN Err([kind |-> "UnexpectedPrimitive", expected |-> "Name", found |-> p])
    ELSE Ok(p)

\* FontType::from_primitive (derived)
FontType_from_primitive(p) ==
    LET n == to_name(p)
    IN  IF n.tag = "Err" THEN n
        ELSE IF n.val \in FontTypes THEN n
        ELSE Err([kind |-> "UnknownVariant", id |-> "FontType", name |-> n.val])

\* Object::from_primitive of an optional entry (Encoding, ToUnicode)
optional_from_primitive(found) ==
    IF found = "absent" THEN Ok(None)
    ELSE IF found = "bad"
    THEN Err([kind |-> "UnexpectedPrimitive", expected |-> "Dictionary",
              found |-> found])
    ELSE Ok(Some(found))

\* the keys of struct TFont, Type0Font and CIDFont, which their from_dict
\* reads; with FontDescriptor go the font program entries of the descriptor
from_dict_keys(subtype) ==
    CASE subtype \in {"Type1", "TrueType"} ->
             {"Name", "FirstChar", "LastChar", "Widths", "FontDescriptor",
              "FontFile", "FontFile2", "FontFile3"}
      [] subtype = "Type0" -> {"DescendantFonts", "ToUnicode"}
      [] subtype \in {"CIDFontType0", "CIDFontType2"} ->
             {"CIDSystemInfo", "FontDescriptor", "DW", "W",
              "FontFile", "FontFile2", "FontFile3"}
      [] OTHER -> {}

\* TFont::from_dict, Type0Font::from_dict, CIDFont::from_dict (derived): the
\* FontData variant, or the error of a required entry that is absent or bad
from_dict(dict, subtype) ==
    IF subtype \in {"MMType1", "Type3"} THEN Ok("Other")
    ELSE IF dict.Rest = "bad"
    THEN Err([kind |-> "FromPrimitive", typ |-> subtype])
    ELSE IF subtype = "Type0" THEN Ok("Type0")
    ELSE IF dict.FontDescriptor = "absent"
    THEN MissingEntry(subtype, "FontDescriptor")
    ELSE IF dict.FontDescriptor = "bad"
    THEN Err([kind |-> "FromPrimitive", typ |-> subtype, field |-> "FontDescriptor"])
    ELSE Ok(subtype)

\* Font_data as it would be if the subtype alone chose the FontData
Font_data_by_subtype(dict, base_font, subtype, feature) ==
    [data |-> from_dict(dict, subtype),
     read |-> from_dict_keys(subtype)
                  \cup (IF subtype = "CIDFontType2" THEN {"CIDToGIDMap"} ELSE {})]

\* Font::from_primitive, the  let data = match STANDARD_FONTS ...  : the
\* FontData (or the error of `?`) and the keys of the dictionary it reads
Font_data(dict, base_font, subtype, feature) ==
    IF base_font \in STANDARD_FONTS(feature)
    THEN [data |-> Ok("Standard"), read |-> {}]
    ELSE [data |-> from_dict(dict, subtype),
          read |-> from_dict_keys(subtype)
                       \cup (IF subtype = "CIDFontType2" THEN {"CIDToGIDMap"} ELSE {})]

FontIdle ==
    /\ standard_fonts = FALSE
    /\ font_dict = [Type |-> "absent", BaseFont |-> "absent", Subtype |-> "absent",
                    Encoding |-> "absent", ToUnicode |-> "absent",
                    FontDescriptor |-> "absent", FontFile |-> FALSE, Rest |-> "ok"]
    /\ font_pc = "idle"
    /\ font_read = {}
    /\ font_base_font = "absent"
    /\ font_subtype = "absent"
    /\ font_result = Pending

FontInit ==
    /\ standard_fonts \in BOOLEAN
    /\ font_dict \in FontDicts
    /\ font_pc = "expect_type"
    /\ font_read = {}
    /\ font_base_font = "absent"
    /\ font_subtype = "absent"
    /\ font_result = Pending

\* a statement of from_primitive that reads key: on an error r, `?` returns it
FontStep(key, r, next) ==
    /\ font_read' = font_read \cup {key}
    /\ IF r.tag = "Err"
       THEN font_result' = r /\ font_pc' = "done"
       ELSE font_pc' = next /\ UNCHANGED font_result
    /\ UNCHANGED <<standard_fonts, font_dict, notFont>>

\* dict.expect("Font", "Type", "Font", true)?
FontExpectType ==
    /\ font_pc = "expect_type"
    /\ FontStep("Type", Dictionary_expect("Font", "Type", "Font", TRUE, font_dict.Type),
                "base_font")
    /\ UNCHANGED <<font_base_font, font_subtype>>

\* let base_font = dict.require("Font", "BaseFont")?.to_name()?
FontBaseFont ==
    /\ font_pc = "base_font"
    /\ LET e == Dictionary_require("Font", "BaseFont", font_dict.BaseFont)
           r == IF e.tag = "Err" THEN e ELSE to_name(e.val)
       IN  /\ FontStep("BaseFont", r, "subtype")
           /\ font_base_font' = IF r.tag = "Ok" THEN r.val ELSE font_base_font
    /\ UNCHANGED font_subtype

\* the subtype entry looked up under another type name
require_subtype_as_FontType(dict) ==
    Dictionary_require("FontType", "Subtype", dict.Subtype)

\* dict.require("Font", "Subtype")
require_subtype(dict) == Dictionary_require("Font", "Subtype", dict.Subtype)

\* let subtype = FontType::from_primitive(dict.require("Font", "Subtype")?, resolve)?
FontSubtype ==
    /\ font_pc = "subtype"
    /\ LET e == require_subtype(font_dict)
           r == IF e.tag = "Err" THEN e ELSE FontType_from_primitive(e.val)
       IN  /\ FontStep("Subtype", r, "encoding")
           /\ font_subtype' = IF r.tag = "Ok" THEN r.val ELSE font_subtype
    /\ UNCHANGED font_base_font

\* let encoding = dict.remove("Encoding").map(...).transpose()?
FontEncoding ==
    /\ font_pc = "encoding"
    /\ FontStep("Encoding", optional_from_primitive(font_dict.Encoding), "to_unicode")
    /\ UNCHANGED <<font_base_font, font_subtype>>

\* let to_unicode = match dict.remove("ToUnicode") ...
FontToUnicode ==
    /\ font_pc = "to_unicode"
    /\ FontStep("ToUnicode", optional_from_primitive(font_dict.ToUnicode), "data")
    /\ UNCHANGED <<font_base_font, font_subtype>>

\* let data = match STANDARD_FONTS ... ; Ok(Font { .. })
FontData ==
    /\ font_pc = "data"
    /\ LET d == Font_data(font_dict, font_base_font, font_subtype, standard_fonts)
       IN  /\ font_read' = font_read \cup d.read
           /\ font_result' =
                  IF d.data.tag = "Err" THEN d.data
                  ELSE Ok([subtype |-> font_subtype, name |-> font_base_font,
                           data |-> d.data.val])
    /\ font_pc' = "done"
    /\ UNCHANGED <<standard_fonts, font_dict, font_base_font, font_subtype, notFont>>

FontNext ==
    \/ FontExpectType
    \/ FontBaseFont
    \/ FontSubtype
    \/ FontEncoding
    \/ FontToUnicode
    \/ FontData

-----------------------------------------------------------------------------
(* parse_cmap: examples/text/src/main.rs *)

MaxTokens == 8

\* What the lexer and the parser make of data, token by token: a keyword, or
\* a primitive (a string with its bytes, an array with its items, an integer).
Keyword(name) == [t |-> "Keyword", name |-> name]
String(bytes) == [t |-> "String", bytes |-> bytes]
Array(items)  == [t |-> "Array", items |-> items]
Integer(n)    == [t |-> "Integer", n |-> n]
EndOfData     == [t |-> "EndOfData"]

BlockKeywords == {"beginbfchar", "beginbfrange"}

\* <0000> <0001> <004100FF>
StringSample == {<<0, 0>>, <<0, 1>>, <<0, 65, 0, 255>>}

ArraySample ==
    {<<>>, <<String(<<0, 1>>)>>, <<Integer(1)>>,
     <<String(<<0, 1>>), String(<<0, 0>>), String(<<0, 65, 0, 255>>)>>}

TokenSample ==
    {Keyword(k) : k \in BlockKeywords \cup {"endbfchar", "endbfrange", "endcmap", "def"}}
        \cup {String(b) : b \in StringSample}
        \cup {Array(a) : a \in ArraySample}
        \cup {Integer(1)}

\* utf16be_to_string: one UTF-16 code unit for every two bytes, high byte
\* first (the strings here hold no surrogates)
utf16be_to_string(data) ==
    [i \in 1..(Len(data) \div 2) |-> data[2 * i - 1] * 256 + data[2 * i]]

\* u16::from_be_bytes(bytes.try_into().unwrap()): try_into fails unless there
\* are exactly two bytes
cid_of(bytes) ==
    IF Len(bytes) = 2 THEN Ok(bytes[1] * 256 + bytes[2]) ELSE Panic

\* HashMap::insert
insert(map, key, value) == (key :> value) @@ map

\* *unicode_data.last_mut().unwrap() += 1 : Panic when there is no last byte or
\* when 0xFF + 1 overflows in a build that checks it, else the bytes it leaves
increment_last(data, checks) ==
    IF Len(data) = 0 THEN Panic
    ELSE IF data[Len(data)] = 255
    THEN IF checks THEN Panic ELSE Ok([data EXCEPT ![Len(data)] = 0])
    ELSE Ok([data EXCEPT ![Len(data)] = data[Len(data)] + 1])

RECURSIVE bfrange_string(_, _, _, _, _)
\* for cid in cid_start ..= cid_end { insert; += 1 }, from cid on
bfrange_string(map, cid, cid_end, unicode_data, checks) ==
    IF cid > cid_end THEN Ok(map)
    ELSE LET next == increment_last(unicode_data, checks)
         IN  IF next = Panic THEN Panic
             ELSE bfrange_string(insert(map, cid, utf16be_to_string(unicode_data)),
                                 cid + 1, cid_end, next.val, checks)

\* the code that element i (0-based) of the array goes to, were the array
\* taken one place late
bfrange_array_code_late(cid_start, i) == cid_start + i + 1

\* (cid_start ..= cid_end).zip(unicode_data_arr): the code of element i
bfrange_array_code(cid_start, i) == cid_start + i

RECURSIVE bfrange_array(_, _, _, _, _)
\* for (cid, unicode_data) in (cid_start ..= cid_end).zip(unicode_data_arr),
\* from element i (0-based) on; as_string().unwrap() panics on an element
\* that is no string
bfrange_array(map, cid_start, cid_end, arr, i) ==
    IF cid_start + i > cid_end \/ i >= Len(arr) THEN Ok(map)
    ELSE IF arr[i + 1].t # "String" THEN Panic
    ELSE bfrange_array(insert(map, bfrange_array_code(cid_start, i),
                              utf16be_to_string(arr[i + 1].bytes)),
                       cid_start, cid_end, arr, i + 1)

\* parse_with_lexer on the next token: a primitive, or an error for a
\* keyword and for the end of data
parse_with_lexer(tok) ==
    IF tok.t \in {"String", "Array", "Integer"} THEN Ok(tok)
    ELSE Err([kind |-> "Other"])

IsString(r) == r.tag = "Ok" /\ r.val.t = "String"
IsArray(r)  == r.tag = "Ok" /\ r.val.t = "Array"

\* the arm of  match (a, b)  of a beginbfchar block: Ok(map), Panic, or
\* Break for the arm  _ => break
bfchar_match(map, a, b) ==
    IF IsString(a) /\ IsString(b)
    THEN LET cid == cid_of(a.val.bytes)
         IN  IF cid = Panic THEN Panic
             ELSE Ok(insert(map, cid.val, utf16be_to_string(b.val.bytes)))
    ELSE [tag |-> "Break"]

\* the arm of  match (a, b, c)  of a beginbfrange block
bfrange_match(map, a, b, c, checks) ==
    IF IsString(a) /\ IsString(b) /\ (IsString(c) \/ IsArray(c))
    THEN LET cid_start == cid_of(a.val.bytes)
             cid_end   == cid_of(b.val.bytes)
         IN  IF cid_start = Panic \/ cid_end = Panic THEN Panic
             ELSE IF IsString(c)
             THEN bfrange_string(map, cid_start.val, cid_end.val, c.val.bytes, checks)
             ELSE bfrange_array(map, cid_start.val, cid_end.val, c.val.items, 0)
    ELSE [tag |-> "Break"]

CMapIdle ==
    /\ cm_checks = FALSE
    /\ cm_pc = "idle"
    /\ cm_a = Pending
    /\ cm_b = Pending
    /\ cm_map = <<>>
    /\ cm_count = 0
    /\ cm_eof = FALSE
    /\ cm_entry = [kind |-> "none"]
    /\ cm_lost = "none"
    /\ cm_result = Pending

\* let mut lexer = Lexer::new(data); let mut map = HashMap::new();
CMapInit ==
    /\ cm_checks \in BOOLEAN
    /\ cm_pc = "scan"
    /\ cm_a = Pending
    /\ cm_b = Pending
    /\ cm_map = <<>>
    /\ cm_count = 0
    /\ cm_eof = FALSE
    /\ cm_entry = [kind |-> "none"]
    /\ cm_lost = "none"
    /\ cm_result = Pending

\* the lexer hands out tok, the next token of data; after the last token
\* there is only the end of data
Take(tok) ==
    /\ tok \in TokenSample \cup {EndOfData}
    /\ (cm_eof \/ cm_count = MaxTokens) => tok = EndOfData
    /\ cm_count' = IF tok = EndOfData THEN cm_count ELSE cm_count + 1
    /\ cm_eof' = (tok = EndOfData)

\* tok was taken by parse_with_lexer as an operand of a group; malformed: an
\* operand before it already was no string. Note the first block keyword, or
\* endcmap, that went into a malformed group.
Operand(tok, malformed) ==
    cm_lost' = IF cm_lost # "none" \/ ~malformed THEN cm_lost
               ELSE IF tok \in {Keyword(k) : k \in BlockKeywords} THEN "block"
               ELSE IF tok = Keyword("endcmap") THEN "endcmap"
               ELSE cm_lost

\* while let Ok(substr) = lexer.next() { match substr.as_slice() ... }; map
CMapScan ==
    /\ cm_pc = "scan"
    /\ \E tok \in TokenSample \cup {EndOfData} :
          /\ Take(tok)
          /\ IF tok \in {EndOfData, Keyword("endcmap")}
             THEN cm_pc' = "done" /\ cm_result' = Ok(cm_map)
             ELSE /\ cm_pc' = IF tok = Keyword("beginbfchar") THEN "char_a"
                              ELSE IF tok = Keyword("beginbfrange") THEN "range_a"
                              ELSE "scan"
                  /\ UNCHANGED cm_result
    /\ UNCHANGED <<cm_checks, cm_a, cm_b, cm_map, cm_entry, cm_lost, notCMap>>

\* a first or second operand: let a = parse_with_lexer(&mut lexer, &NoResolve)
CMapOperand(at, next) ==
    /\ cm_pc = at
    /\ \E tok \in TokenSample \cup {EndOfData} :
          /\ Take(tok)
          /\ Operand(tok, at = "range_b" /\ ~IsString(cm_a))
          /\ IF at \in {"char_a", "range_a"}
             THEN cm_a' = parse_with_lexer(tok) /\ UNCHANGED cm_b
             ELSE cm_b' = parse_with_lexer(tok) /\ UNCHANGED cm_a
    /\ cm_pc' = next
    /\ UNCHANGED <<cm_checks, cm_map, cm_entry, cm_result, notCMap>>

\* the last operand of the group and the match on the group: m is what the
\* arm makes of map
CMapMatch(kind, again, last, m) ==
    /\ cm_a' = Pending
    /\ cm_b' = Pending
    /\ IF m.tag = "Break"
       THEN cm_pc' = "scan" /\ UNCHANGED <<cm_map, cm_entry, cm_result>>
       ELSE /\ cm_entry' = [kind |-> kind, a |-> cm_a, b |-> cm_b, last |-> last,
                            before |-> cm_map]
            /\ IF m = Panic
               THEN cm_pc' = "done" /\ cm_result' = Panic /\ UNCHANGED cm_map
               ELSE cm_pc' = again /\ cm_map' = m.val /\ UNCHANGED cm_result
    /\ UNCHANGED <<cm_checks, notCMap>>

CMapCharA == CMapOperand("char_a", "char_b")

\* let b = parse_with_lexer(...); match (a, b) { ... }
CMapCharB ==
    /\ cm_pc = "char_b"
    /\ \E tok \in TokenSample \cup {EndOfData} :
          /\ Take(tok)
          /\ Operand(tok, ~IsString(cm_a))
          /\ CMapMatch("bfchar", "char_a", parse_with_lexer(tok),
                       bfchar_match(cm_map, cm_a, parse_with_lexer(tok)))

CMapRangeA == CMapOperand("range_a", "range_b")
CMapRangeB == CMapOperand("range_b", "range_c")

\* let c = parse_with_lexer(...); match (a, b, c) { ... }
CMapRangeC ==
    /\ cm_pc = "range_c"
    /\ \E tok \in TokenSample \cup {EndOfData} :
          /\ Take(tok)
          /\ Operand(tok, ~IsString(cm_a) \/ ~IsString(cm_b))
          /\ CMapMatch("bfrange", "range_a", parse_with_lexer(tok),
                       bfrange_match(cm_map, cm_a, cm_b, parse_with_lexer(tok),
                                     cm_checks))

CMapNext ==
    \/ CMapScan
    \/ CMapCharA
    \/ CMapCharB
    \/ CMapRangeA
    \/ CMapRangeB
    \/ CMapRangeC

-----------------------------------------------------------------------------
(* Font::widths, the W array of a CID font: font.rs *)

MaxWidthsArray == 2

Name(name) == [t |-> "Name", name |-> name]

\* Primitive::as_integer
as_integer(p) ==
    IF p.t = "Integer" THEN Ok(p.n)
    ELSE Err([kind |-> "UnexpectedPrimitive", expected |-> "Integer", found |-> p.t])

\* Primitive::as_number
as_number(p) ==
    IF p.t = "Integer" THEN Ok(p.n)
    ELSE Err([kind |-> "UnexpectedPrimitive", expected |-> "Number", found |-> p.t])

\* what the iterator over cid.widths yields for one pass of the loop: the
\* start code and what follows it, cut short where the W array ends
WidthArrays ==
    {[i \in DOMAIN w |-> Integer(w[i])] : w \in SeqsUpTo(WidthVals, MaxWidthsArray)}
        \cup {<<Name("x")>>, <<Integer(1), Name("x")>>}

WEntries ==
    {<<Integer(c1), Array(a)>> : c1 \in Codes, a \in WidthArrays}
        \cup {<<Integer(c1), Integer(c2), Integer(w)>> :
                  c1 \in Codes, c2 \in Codes, w \in WidthVals}
        \cup {<<Name("x")>>, <<Array(<<>>)>>, <<Integer(0)>>, <<Integer(0), Name("x")>>,
              <<Integer(0), Integer(1)>>, <<Integer(0), Integer(1), Name("x")>>,
              <<Integer(0), Integer(1), Array(<<>>)>>}

RECURSIVE widths_array(_, _, _, _)
\* for (i, w) in array.iter().enumerate() { widths.set(c1 + i, w.as_number()?) },
\* from element i (0-based) on
widths_array(w, c1, array, i) ==
    IF i >= Len(array) THEN Ok(w)
    ELSE LET width == as_number(array[i + 1])
         IN  IF width.tag = "Err" THEN width
             ELSE widths_array(Widths_set(w, c1 + i, width.val), c1, array, i + 1)

RECURSIVE widths_range(_, _, _, _)
\* for c in c1..=c2 { widths.set(c, w) }, from c on
widths_range(w, c, c2, width) ==
    IF c > c2 THEN Ok(w)
    ELSE widths_range(Widths_set(w, c, width), c + 1, c2, width)

\* the error of the arm  p => return Err(PdfError::Other { .. })
unexpected_in_W == Err([kind |-> "Other", msg |-> "unexpected primitive in W array"])

\* try_opt!(None)
NoneError == Err([kind |-> "NoneError"])

\* one pass of  while let Some(ref p) = iter.next() : the table after it, or
\* the error that widths returns
widths_entry(w, entry) ==
    LET c1 == as_integer(entry[1])
    IN  IF c1.tag = "Err" THEN c1
        ELSE IF Len(entry) < 2 THEN unexpected_in_W
        ELSE IF entry[2].t = "Array"
        THEN widths_array(Widths_ensure_capacity(w, c1.val + Len(entry[2].items)),
                          c1.val, entry[2].items, 0)
        ELSE IF entry[2].t = "Integer"
        THEN IF Len(entry) < 3 THEN NoneError
             ELSE LET width == as_number(entry[3])
                  IN  IF width.tag = "Err" THEN width
                      ELSE widths_range(w, c1.val, entry[2].n, width.val)
        ELSE unexpected_in_W

\* an entry of one of the two shapes: (start-code, array-of-widths) or
\* (start-code, end-code, width)
WellFormedEntry(entry) ==
    /\ entry[1].t = "Integer"
    /\ \/ /\ Len(entry) = 2
          /\ entry[2].t = "Array"
          /\ \A k \in DOMAIN entry[2].items : entry[2].items[k].t = "Integer"
       \/ /\ Len(entry) = 3
          /\ entry[2].t = "Integer"
          /\ entry[3].t = "Integer"

\* the codes an entry of one of the two shapes gives a width, with the width
entry_widths(entry) ==
    IF entry[2].t = "Array"
    THEN [c \in {entry[1].n + i - 1 : i \in 1..Len(entry[2].items)} |->
              entry[2].items[c - entry[1].n + 1].n]
    ELSE [c \in entry[1].n .. entry[2].n |-> entry[3].n]

FontWidthsIdle == fw_malformed = FALSE /\ fw_result = Pending

\* let mut widths = Widths::new(cid.default_width); let mut iter = ...
FontWidthsInit == WidthsInit /\ fw_malformed = FALSE /\ fw_result = Pending

\* one pass of the loop, over an entry that widths_entry takes
FontWidthsEntry ==
    /\ fw_result = Pending
    /\ \E entry \in WEntries :
          LET r == widths_entry(widths, entry)
          IN  /\ fw_malformed' = ~WellFormedEntry(entry)
              /\ IF r.tag = "Err"
                 THEN fw_result' = r /\ UNCHANGED <<widths, inserted>>
                 ELSE /\ widths' = r.val
                      /\ inserted' =
                             LET new == entry_widths(entry)
                             IN  [c \in DOMAIN inserted \cup DOMAIN new |->
                                      IF c \in DOMAIN new THEN new[c] ELSE inserted[c]]
                      /\ UNCHANGED fw_result
    /\ UNCHANGED notFontWidths

\* iter.next() is None: Ok(Some(widths))
FontWidthsEnd ==
    /\ fw_result = Pending
    /\ fw_result' = Ok(Some(widths))
    /\ UNCHANGED <<widths, inserted, fw_malformed, notFontWidths>>

FontWidthsNext == FontWidthsEntry \/ FontWidthsEnd

-----------------------------------------------------------------------------
(* ColorSpace::from_primitive: object/color.rs *)

MaxColorLen == 4

Stream     == [t |-> "Stream"]
Dictionary == [t |-> "Dictionary"]

DeviceNames == {"DeviceGray", "DeviceRGB", "DeviceCMYK"}

ColorSample ==
    {Name("Indexed"), Name("Separation"), Name("ICCBased"), Name("DeviceRGB"),
     Name("Lab"), Integer(1), String(<<0>>), Stream, Dictionary, Array(<<>>)}

\* the error of  t!(e) : e wrapped with the place of the macro call
t(r) == IF r.tag = "Err" THEN Err([kind |-> "Try", source |-> r.err]) ELSE r

\* Primitive::as_name
as_name(p) ==
    IF p.t = "Name" THEN Ok(p.name)
    ELSE Err([kind |-> "UnexpectedPrimitive", expected |-> "Name", found |-> p.t])

\* Primitive::into_array
into_array(p) ==
    IF p.t = "Array" THEN Ok(p.items)
    ELSE Err([kind |-> "UnexpectedPrimitive", expected |-> "Array", found |-> p.t])

\* Stream::from_primitive
Stream_from_primitive(p) ==
    IF p.t = "Stream" THEN Ok(p)
    ELSE Err([kind |-> "UnexpectedPrimitive", expected |-> "Stream", found |-> p.t])

\* Function::from_primitive
Function_from_primitive(p) ==
    IF p.t \in {"Dictionary", "Stream"} THEN Ok(p)
    ELSE Err([kind |-> "UnexpectedPrimitive", expected |-> "Dictionary", found |-> p.t])

\* get_index with the two fields of the error taken for each other
get_index_swapped(arr, idx) ==
    IF idx < Len(arr) THEN Ok(arr[idx + 1])
    ELSE Err([kind |-> "Bounds", index |-> Len(arr), len |-> idx])

\* get_index
get_index(arr, idx) ==
    IF idx < Len(arr) THEN Ok(arr[idx + 1])
    ELSE Err([kind |-> "Bounds", index |-> idx, len |-> Len(arr)])

\* the second  let lookup = match lookup { ... }  of the arm "Indexed"
indexed_lookup(p) ==
    IF p.t \in {"String", "Stream"} THEN Ok(p)
    ELSE Err([kind |-> "UnexpectedPrimitive", expected |-> "String or Stream",
              found |-> p.t])

RECURSIVE ColorSpace_from_primitive(_)
\* ColorSpace::from_primitive: every `t!` and `?` returns the error it meets
ColorSpace_from_primitive(p) ==
    IF as_name(p).tag = "Ok"
    THEN IF as_name(p).val \in DeviceNames
         THEN Ok([cs |-> as_name(p).val])
         ELSE unimplemented
    ELSE
    LET arr == t(into_array(p))
        e0  == t(get_index(arr.val, 0))
        typ == t(as_name(e0.val))
        e1  == t(get_index(arr.val, 1))
        e2  == t(get_index(arr.val, 2))
        e3  == t(get_index(arr.val, 3))
    IN  IF arr.tag = "Err" THEN arr
        ELSE IF e0.tag = "Err" THEN e0
        ELSE IF typ.tag = "Err" THEN typ
        ELSE IF typ.val = "Indexed"
        THEN IF e1.tag = "Err" THEN e1
             ELSE LET base == t(ColorSpace_from_primitive(e1.val))
                  IN  IF base.tag = "Err" THEN base
                      ELSE IF e3.tag = "Err" THEN e3
                      ELSE IF indexed_lookup(e3.val).tag = "Err"
                      THEN indexed_lookup(e3.val)
                      ELSE Ok([cs |-> "Indexed"])
        ELSE IF typ.val = "Separation"
        THEN IF e1.tag = "Err" THEN e1
             ELSE IF t(as_name(e1.val)).tag = "Err" THEN t(as_name(e1.val))
             ELSE IF e2.tag = "Err" THEN e2
             ELSE LET alternate == t(ColorSpace_from_primitive(e2.val))
                  IN  IF alternate.tag = "Err" THEN alternate
                      ELSE IF e3.tag = "Err" THEN e3
                      ELSE IF t(Function_from_primitive(e3.val)).tag = "Err"
                      THEN t(Function_from_primitive(e3.val))
                      ELSE Ok([cs |-> "Separation"])
        ELSE IF typ.val = "ICCBased"
        THEN IF e1.tag = "Err" THEN e1
             ELSE IF t(Stream_from_primitive(e1.val)).tag = "Err"
             THEN t(Stream_from_primitive(e1.val))
             ELSE Ok([cs |-> "Icc"])
        ELSE Ok([cs |-> "Other"])

ColorIdle == col_p = Integer(0) /\ col_result = Pending

ColorInit ==
    /\ col_p \in ColorSample \cup {Array(a) : a \in SeqsUpTo(ColorSample, MaxColorLen)}
    /\ col_result = Pending

ColorFromPrimitive ==
    /\ col_result = Pending
    /\ col_result' = ColorSpace_from_primitive(col_p)
    /\ UNCHANGED <<col_p, notColor>>

ColorNext == ColorFromPrimitive

-----------------------------------------------------------------------------
(* filter_paeth on its own: enc.rs *)

PaethSample == (0..7) \cup {127, 128} \cup (250..255)

\* the range of i16
i16(x) == x >= -32768 /\ x <= 32767

\* filter_paeth, the values its i16 expressions take one after the other:
\* ia + ib, p, p - ia, p - ib, p - ic
paeth_terms(a, b, c) ==
    LET p == a + b - c
    IN  <<a + b, p, p - a, p - b, p - c>>

\* filter_paeth in a build that checks overflow: Panic when an expression
\* leaves i16 (abs of -32768 included)
filter_paeth_checked(a, b, c) ==
    IF \A k \in DOMAIN paeth_terms(a, b, c) :
           i16(paeth_terms(a, b, c)[k]) /\ paeth_terms(a, b, c)[k] # -32768
    THEN Ok(filter_paeth(a, b, c))
    ELSE Panic

PaethIdle == pa_in = [a |-> 0, b |-> 0, c |-> 0] /\ pa_out = Pending

PaethInit ==
    /\ pa_in \in [a : PaethSample, b : PaethSample, c : PaethSample]
    /\ pa_out = Pending

FilterPaeth ==
    /\ pa_out = Pending
    /\ pa_out' = filter_paeth_checked(pa_in.a, pa_in.b, pa_in.c)
    /\ UNCHANGED <<pa_in, notPaeth>>

PaethNext == FilterPaeth

-----------------------------------------------------------------------------
(* Specifications: one component each *)

InitWidths == WidthsInit /\ HexIdle /\ A85Idle /\ PngIdle /\ FlateIdle /\ DecIdle /\ FontIdle
                  /\ CMapIdle /\ FontWidthsIdle /\ ColorIdle /\ PaethIdle
InitHex    == WidthsIdle /\ HexInit /\ A85Idle /\ PngIdle /\ FlateIdle /\ DecIdle /\ FontIdle
                  /\ CMapIdle /\ FontWidthsIdle /\ ColorIdle /\ PaethIdle
InitA85    == WidthsIdle /\ HexIdle /\ A85Init /\ PngIdle /\ FlateIdle /\ DecIdle /\ FontIdle
                  /\ CMapIdle /\ FontWidthsIdle /\ ColorIdle /\ PaethIdle
InitPng    == WidthsIdle /\ HexIdle /\ A85Idle /\ PngInit /\ FlateIdle /\ DecIdle /\ FontIdle
                  /\ CMapIdle /\ FontWidthsIdle /\ ColorIdle /\ PaethIdle
InitFlate  == WidthsIdle /\ HexIdle /\ A85Idle /\ PngIdle /\ FlateInit /\ DecIdle /\ FontIdle
                  /\ CMapIdle /\ FontWidthsIdle /\ ColorIdle /\ PaethIdle
InitDec    == WidthsIdle /\ HexIdle /\ A85Idle /\ PngIdle /\ FlateIdle /\ DecInit /\ FontIdle
                  /\ CMapIdle /\ FontWidthsIdle /\ ColorIdle /\ PaethIdle
InitFont   == WidthsIdle /\ HexIdle /\ A85Idle /\ PngIdle /\ FlateIdle /\ DecIdle /\ FontInit
                  /\ CMapIdle /\ FontWidthsIdle /\ ColorIdle /\ PaethIdle

InitCMap   == WidthsIdle /\ HexIdle /\ A85Idle /\ PngIdle /\ FlateIdle /\ DecIdle /\ FontIdle
                  /\ CMapInit /\ FontWidthsIdle /\ ColorIdle /\ PaethIdle
InitFontWidths == FontWidthsInit /\ HexIdle /\ A85Idle /\ PngIdle /\ FlateIdle /\ DecIdle
                  /\ FontIdle /\ CMapIdle /\ ColorIdle /\ PaethIdle
InitColor  == WidthsIdle /\ HexIdle /\ A85Idle /\ PngIdle /\ FlateIdle /\ DecIdle /\ FontIdle
                  /\ CMapIdle /\ FontWidthsIdle /\ ColorInit /\ PaethIdle
InitPaeth  == WidthsIdle /\ HexIdle /\ A85Idle /\ PngIdle /\ FlateIdle /\ DecIdle /\ FontIdle
                  /\ CMapIdle /\ FontWidthsIdle /\ ColorIdle /\ PaethInit

SpecWidths == InitWidths /\ [][WidthsNext]_vars
SpecHex    == InitHex /\ [][HexNext]_vars
SpecA85    == InitA85 /\ [][A85Next]_vars
SpecPng    == InitPng /\ [][PngNext]_vars
SpecFlate  == InitFlate /\ [][FlateNext]_vars
SpecDecode == InitDec /\ [][DecNext]_vars
SpecFont   == InitFont /\ [][FontNext]_vars
SpecCMap   == InitCMap /\ [][CMapNext]_vars
SpecFontWidths == InitFontWidths /\ [][FontWidthsNext]_vars
SpecColor  == InitColor /\ [][ColorNext]_vars
SpecPaeth  == InitPaeth /\ [][PaethNext]_vars

-----------------------------------------------------------------------------
(* Claims *)

\* C1: after any sequence of Widths::set calls, Widths::get returns the most
\* recently inserted width for every inserted code and the default for every
\* other code: below the lowest inserted code, above the highest, and in a
\* gap between inserted codes.
C1_GetReturnsInserted ==
    \A c \in 0..(2 * MaxCode + 1) :
        Widths_get(widths, c) =
            IF c \in DOMAIN inserted THEN inserted[c] ELSE widths.default

\* the bytes 0-9, a-f, A-F
IsHexDigit(c) ==
    \/ c >= 48 /\ c <= 57
    \/ c >= 97 /\ c <= 102
    \/ c >= 65 /\ c <= 70

\* the pairs of data (0-based) with a byte that is no hex digit
BadPairs(data) ==
    {i \in 0..(Len(data) \div 2 - 1) :
        ~IsHexDigit(data[2 * i + 1]) \/ ~IsHexDigit(data[2 * i + 2])}

\* C2: when a byte of some pair of the input is none of 0-9, a-f, A-F,
\* decode_hex returns no bytes but a HexDecode error that carries the byte
\* offset of the (first such) pair and its two bytes.
C2_NonHexPairFails ==
    (hex_result # Pending /\ BadPairs(hex_data) # {}) =>
        LET i == CHOOSE i \in BadPairs(hex_data) :
                     \A j \in BadPairs(hex_data) : i <= j
        IN  hex_result = Err([kind |-> "HexDecode", pos |-> 2 * i,
                              bytes |-> <<hex_data[2 * i + 1], hex_data[2 * i + 2]>>])

\* C3: decode_hex on an input of odd length returns an error: the last byte
\* is never dropped with an Ok result.
C3_OddLengthFails ==
    (hex_result # Pending /\ Len(hex_data) % 2 = 1) => hex_result.tag = "Err"

\* C4: decode_85 of the standard base-85 encoding of b returns exactly b.
C4_RoundTrip ==
    (a85_result # Pending /\ a85_data = encode_85(a85_src)) =>
        a85_result = Ok(a85_src)

\* C5: decode_85 of an input without the '~>' terminator returns
\* Ascii85TailError: it neither panics nor returns data.
C5_NoTerminatorIsTailError ==
    (a85_result # Pending /\ ~has_terminator(a85_data)) =>
        a85_result = Err([kind |-> "Ascii85TailError"])

\* C6: for every predictor, stride and rows of equal length, filter applied
\* to the row unfilter produced gives back the raw row.
C6_FilterUndoesUnfilter ==
    png_filtered # Pending => png_filtered = Ok(png.inp)

\* the tag byte and the data bytes of row k (0-based) of the inflated buffer
RowTag(inp, columns, k)  == inp[k * (columns + 1) + 1]
RowData(inp, columns, k) ==
    SubSeq(inp, k * (columns + 1) + 2, k * (columns + 1) + 1 + columns)

RECURSIVE DecodedRow(_, _, _)
\* row k as the claim describes it: unfiltered with the inverse filter its tag
\* names, against decoded row k - 1 (zeros for row 0)
DecodedRow(inp, params, k) ==
    LET above == IF k = 0 THEN Ok(repeat(0, params.columns))
                 ELSE DecodedRow(inp, params, k - 1)
        kind  == PredictorType_from_u8(RowTag(inp, params.columns, k))
    IN  IF above.tag # "Ok" \/ kind.tag # "Ok" THEN Panic
        ELSE unfilter(kind.val, params.n_components, above.val,
                      RowData(inp, params.columns, k), repeat(0, params.columns))

RECURSIVE DecodedRows(_, _, _)
\* decoded rows 0..n-1, one after the other
DecodedRows(inp, params, n) ==
    IF n = 0 THEN Ok(<<>>)
    ELSE LET head == DecodedRows(inp, params, n - 1)
             row  == DecodedRow(inp, params, n - 1)
         IN  IF head.tag # "Ok" \/ row.tag # "Ok" THEN Panic
             ELSE Ok(head.val \o row.val)

\* C7: with predictor > 10, flate_decode takes the inflated buffer as rows of
\* one tag byte and `columns` data bytes and unfilters them in order: after k
\* iterations it stands at row k and the output holds rows 0..k-1, each
\* unfiltered as its tag says against the decoded row before it (zeros for
\* row 0), and nothing else; what it returns is all rows decoded that way.
\* The rows [4,10,20,30], [4,1,1,1] (predictor 15, 3 components, 3 columns)
\* give [10,20,30], [11,21,31].
C7_RowsUnfilteredInOrder ==
    LET c == fl_params.columns
        k == fl.in_off \div (c + 1)
    IN  /\ fl_pc = "loop" =>
              /\ fl.in_off = k * (c + 1)
              /\ fl.out_off = k * c
              /\ k > 0 => fl.last_out_off = (k - 1) * c
              /\ DecodedRows(fl.inp, fl_params, k).tag = "Ok"
              /\ fl.out = DecodedRows(fl.inp, fl_params, k).val
                              \o repeat(0, Len(fl.out) - k * c)
        /\ (fl_pc = "done" /\ fl_params.predictor > 10 /\ fl_result.tag = "Ok") =>
              fl_result = DecodedRows(fl_inflated.val, fl_params,
                                      Len(fl_inflated.val) \div (c + 1))
        /\ (fl_pc = "done" /\ fl_params = ScenarioParams
                /\ fl_inflated = Ok(ScenarioInflated)) =>
              fl_result = Ok(<<10, 20, 30, 11, 21, 31>>)

\* C7 happens: the scenario has been decoded
C7_Witness ==
    /\ fl_pc = "done"
    /\ fl_params = ScenarioParams
    /\ fl_inflated = Ok(ScenarioInflated)
    /\ fl_result.tag = "Ok"

\* C8: decode with an LZWDecode, JPXDecode, CCITTFaxDecode or Crypt filter
\* returns an error, never bytes, whatever the input.
C8_UnimplementedFilterFails ==
    (dec_result # Pending /\ dec_filter.val.name \in Unimplemented) =>
        dec_result.tag = "Err"

\* C8 happens: decode has returned for an LZWDecode filter and a non-empty input
C8_Witness ==
    /\ dec_result # Pending
    /\ dec_filter = Ok([name |-> "LZWDecode", params |-> LZWFlateParams(12, 1, 8, 1)])
    /\ dec_data = <<48, 103>>

\* C9: the error of an unimplemented filter is of another kind than every
\* error for malformed data: the error of from_kind_and_params for an
\* unrecognized filter name, the error of decode for data that an implemented
\* filter refuses.
C9_UnimplementedIsItsOwnKind ==
    LET u == decode_other(dec_data).err.kind
    IN  /\ (dec_filter.tag = "Err" /\ dec_kind \notin FilterNames) =>
              dec_filter.err.kind # u
        /\ (dec_result.tag = "Err" /\ dec_filter.val.name \notin Unimplemented) =>
              dec_result.err.kind # u

\* a dictionary from_primitive takes up to the choice of FontData: /Type
\* /Font, a Subtype that names a FontType, Encoding and ToUnicode that parse
FontHeaderOk(dict) ==
    /\ dict.Type = "Font"
    /\ dict.Subtype \in FontTypes
    /\ dict.Encoding # "bad"
    /\ dict.ToUnicode # "bad"

\* the entries that hold the descriptor and the font program
DescriptorKeys == {"FontDescriptor", "FontFile", "FontFile2", "FontFile3"}

\* C10: on a font dictionary whose BaseFont is, letter for letter, the name
\* of a bundled standard font, Font::from_primitive yields FontData::Standard
\* whatever the Subtype, and reads neither FontDescriptor nor a FontFile
\* entry: the dictionary constructs also when it declares /FontFile or has no
\* valid descriptor. A name that differs in case is no standard font.
C10_StandardFontSkipsDescriptor ==
    font_pc = "done" =>
        /\ (font_dict.BaseFont \in STANDARD_FONTS(standard_fonts)
               /\ FontHeaderOk(font_dict)) =>
              /\ font_result.tag = "Ok"
              /\ font_result.val.data = "Standard"
              /\ font_result.val.subtype = font_dict.Subtype
              /\ font_read \cap DescriptorKeys = {}
        /\ (font_result.tag = "Ok" /\ font_dict.BaseFont \notin StandardNames) =>
              font_result.val.data # "Standard"

\* C10 happens: /BaseFont /Helvetica with /FontFile and a descriptor that does
\* not parse has been constructed
C10_Witness ==
    /\ font_pc = "done"
    /\ standard_fonts
    /\ font_dict.BaseFont = "Helvetica"
    /\ font_dict.Subtype = "Type1"
    /\ font_dict.FontFile
    /\ font_dict.FontDescriptor = "bad"
    /\ font_result.tag = "Ok"

\* C11 as stated: Font::from_primitive on every dictionary with /Type /Font
\* and no /Subtype key fails with the missing-field error naming field
\* "Subtype" and type "Font".
C11_MissingSubtypeNamed ==
    (font_pc = "done" /\ font_dict.Type = "Font" /\ font_dict.Subtype = "absent") =>
        font_result = MissingEntry("Font", "Subtype")

\* C11, amended: Font::from_primitive on a dictionary with /Type /Font, a
\* /BaseFont entry that is a name and no /Subtype key fails with the
\* missing-field error naming field "Subtype" and type "Font", not with
\* another kind of error; it reads no entry after Subtype.
C11_MissingSubtypeAfterBaseFont ==
    (font_pc = "done" /\ font_dict.Type = "Font" /\ font_dict.Subtype = "absent"
        /\ font_dict.BaseFont \notin {"absent", "Integer"}) =>
        /\ font_result = MissingEntry("Font", "Subtype")
        /\ font_read = {"Type", "BaseFont", "Subtype"}

\* C11 happens: a /Type /Font dictionary with /BaseFont /Foo and no /Subtype
\* has been refused
C11_Witness ==
    /\ font_pc = "done"
    /\ font_dict.Type = "Font"
    /\ font_dict.BaseFont = "Foo"
    /\ font_dict.Subtype = "absent"
    /\ font_result.tag = "Err"

\* the operand group last matched is a beginbfrange entry of two two-byte
\* codes and a third operand
RangeEntry(e) ==
    /\ e.kind = "bfrange"
    /\ Len(e.a.val.bytes) = 2
    /\ Len(e.b.val.bytes) = 2

\* the 16-bit code a two-byte string stands for
CodeOf(r) == r.val.bytes[1] * 256 + r.val.bytes[2]

\* the entry left alone every code outside start..end
OutsideKept(e) ==
    /\ DOMAIN e.before \subseteq DOMAIN cm_map
    /\ \A c \in DOMAIN cm_map :
          (c < CodeOf(e.a) \/ c > CodeOf(e.b)) =>
              c \in DOMAIN e.before /\ cm_map[c] = e.before[c]

\* C12: a beginbfrange entry <start> <end> [s0 s1 ...] of two-byte codes and
\* an array of strings maps code start+i to the decoded string s_i for every
\* i of the range that the array has an element for, and maps no code
\* outside start..end.
C12_ArrayRangeMapsElements ==
    (RangeEntry(cm_entry) /\ IsArray(cm_entry.last)
        /\ \A k \in DOMAIN cm_entry.last.val.items :
               cm_entry.last.val.items[k].t = "String") =>
        LET start == CodeOf(cm_entry.a)
            items == cm_entry.last.val.items
        IN  /\ cm_result # Panic
            /\ \A i \in 0..(CodeOf(cm_entry.b) - start) :
                  IF i < Len(items)
                  THEN /\ start + i \in DOMAIN cm_map
                       /\ cm_map[start + i] = utf16be_to_string(items[i + 1].bytes)
                  ELSE start + i \in DOMAIN cm_map =>
                           /\ start + i \in DOMAIN cm_entry.before
                           /\ cm_map[start + i] = cm_entry.before[start + i]
            /\ OutsideKept(cm_entry)

\* C12 happens: <0000> <0001> with an array of three strings has been
\* matched, after an entry that had mapped another code
C12_Witness ==
    /\ RangeEntry(cm_entry) /\ IsArray(cm_entry.last)
    /\ CodeOf(cm_entry.a) = 0 /\ CodeOf(cm_entry.b) = 1
    /\ Len(cm_entry.last.val.items) = 3
    /\ DOMAIN cm_entry.before = {1}
    /\ cm_result # Panic

\* C13: a beginbfrange entry <start> <end> <string> of two-byte codes maps
\* every code start+i (0 <= i <= end-start) to the string whose last byte is
\* the original last byte plus i modulo 256 and whose other bytes are
\* unchanged: past 0xFF the byte wraps to 0x00 with no carry, and the entry
\* is processed to its end (parse_cmap does not stop in it).
C13_StringRangeWraps ==
    (RangeEntry(cm_entry) /\ IsString(cm_entry.last)) =>
        LET start == CodeOf(cm_entry.a)
            bytes == cm_entry.last.val.bytes
        IN  /\ cm_result # Panic
            /\ \A i \in 0..(CodeOf(cm_entry.b) - start) :
                  /\ start + i \in DOMAIN cm_map
                  /\ cm_map[start + i] =
                         utf16be_to_string(
                             [bytes EXCEPT ![Len(bytes)] = (bytes[Len(bytes)] + i) % 256])

\* C14: a malformed operand group inside a beginbfchar or beginbfrange block
\* (the block's end keyword included) only ends that block: no beginbfchar
\* or beginbfrange keyword that comes after the malformed operand and before
\* endcmap is consumed as a part of the group, so every block that follows
\* is still recognized.
C14_LaterBlocksRecognized == cm_lost # "block"

\* C15: Font::widths on a CID font reads the W array entry by entry; an entry
\* (start-code, array-of-widths) sets codes start, start+1, ... to the widths
\* of the array and an entry (start-code, end-code, width) sets every code
\* start..end to width, so that the table it returns gives every code the
\* width of the last entry that covers it and the default to the others; a
\* W array with an entry of neither shape yields an error and no table.
C15_WArrayEntries ==
    /\ fw_result.tag = "Ok" =>
           \A c \in 0..(2 * MaxCode + MaxWidthsArray + 1) :
               Widths_get(fw_result.val.val, c) =
                   IF c \in DOMAIN inserted THEN inserted[c] ELSE widths.default
    /\ fw_malformed => fw_result.tag = "Err"

RECURSIVE root_cause(_)
\* the error at the end of the chain of sources
root_cause(e) == IF e.kind = "Try" THEN root_cause(e.source) ELSE e

\* an array too short for its family
TooShort(arr) ==
    \/ Len(arr) = 0
    \/ arr[1] \in {Name("Indexed"), Name("Separation")} /\ Len(arr) < 4
    \/ arr[1] = Name("ICCBased") /\ Len(arr) < 2

\* the elements that a too short array does have are what their family
\* wants in their place: a base or alternate colour space that constructs, a
\* colorant that is a name
PresentOk(arr) ==
    \/ Len(arr) <= 1
    \/ arr[1] = Name("Indexed") /\ ColorSpace_from_primitive(arr[2]).tag = "Ok"
    \/ /\ arr[1] = Name("Separation")
       /\ arr[2].t = "Name"
       /\ Len(arr) >= 3 => ColorSpace_from_primitive(arr[3]).tag = "Ok"

\* the index from_primitive asks for first among those a too short array
\* of good elements lacks
MissingIndex(arr) ==
    IF Len(arr) <= 1 THEN Len(arr)
    ELSE IF arr[1] = Name("Indexed") THEN 3
    ELSE Len(arr)

\* C16 as stated: ColorSpace::from_primitive on every array too short for its
\* family fails with an error whose root cause is the out-of-bounds error
\* that carries a missing index and the length of the array.
C16_TooShortIsBounds ==
    (col_result # Pending /\ col_p.t = "Array" /\ TooShort(col_p.items)) =>
        /\ col_result.tag = "Err"
        /\ root_cause(col_result.err).kind = "Bounds"
        /\ root_cause(col_result.err).len = Len(col_p.items)
        /\ root_cause(col_result.err).index >= Len(col_p.items)

\* C16, amended: on an array too short for its family whose elements, as far
\* as it has them, are good for their place, ColorSpace::from_primitive fails
\* with an error whose root cause is the out-of-bounds error carrying the
\* index asked for (0 for an empty array; 1 for a lone family name; 3 for
\* Indexed; the length for Separation) and the length of the array.
C16_TooShortGoodElementsIsBounds ==
    (col_result # Pending /\ col_p.t = "Array" /\ TooShort(col_p.items)
        /\ PresentOk(col_p.items)) =>
        /\ col_result.tag = "Err"
        /\ root_cause(col_result.err) =
               [kind |-> "Bounds", index |-> MissingIndex(col_p.items),
                len |-> Len(col_p.items)]

\* C16 happens: [/Indexed /DeviceRGB] has been refused
C16_Witness ==
    /\ col_p = Array(<<Name("Indexed"), Name("DeviceRGB")>>)
    /\ col_result.tag = "Err"

\* the row the Sub predictor stands for: every byte plus the decoded byte
\* bpp places before it, zero for the first bpp bytes
SubDecoded(inp, bpp) ==
    LET dec[i \in 1..Len(inp)] ==
            (inp[i] + (IF i > bpp THEN dec[i - bpp] ELSE 0)) % 256
    IN  [i \in 1..Len(inp) |-> dec[i]]

\* C17: unfilter with the Sub predictor leaves out[i] = inp[i] for i < bpp
\* and out[i] = inp[i] + out[i-bpp] modulo 256 for i >= bpp, whatever the
\* output row held before the call.
C17_SubFromZero ==
    (png.filter = "Sub" /\ png_unfiltered # Pending) =>
        png_unfiltered = Ok(SubDecoded(png.inp, png.bpp))

\* C18: the byte stride that flate_decode passes to unfilter is the component
\* count times the bits per component, rounded up to whole bytes (3
\* components of 16 bits: 6; 1 component of 8 bits: 1).
C18_StrideCountsBits ==
    fl_pc = "loop" =>
        flate_bpp(fl_params) =
            (fl_params.n_components * fl_params.bits_per_component + 7) \div 8

\* C19: a step Widths::set(code, w) on a table that is not empty, for a code
\* below first_char, prepends first_char - code entries (w, then defaults)
\* and makes code the new first_char; for a code beyond the current end it
\* appends defaults and then w, so that w is at index code - first_char and
\* the table ends at code; either way every code inserted earlier keeps its
\* width.
C19_SetExtendsTable ==
    [][\A code \in DOMAIN inserted' \ DOMAIN inserted :
          LET first == widths.first_char
              len   == Len(widths.values)
              w     == inserted'[code]
          IN  len > 0 =>
                /\ code < first =>
                      /\ widths'.first_char = code
                      /\ widths'.values =
                             <<w>> \o repeat(widths.default, first - code - 1)
                                  \o widths.values
                /\ code >= first + len =>
                      /\ widths'.first_char = first
                      /\ widths'.values =
                             widths.values
                                 \o repeat(widths.default, code - first - len)
                                 \o <<w>>
                /\ \A c \in DOMAIN inserted :
                      Widths_get(widths', c) = inserted[c]]_vars

\* the distance of x to the base predictor p = left + above - upper_left
PaethDistance(a, b, c, x) == abs(a + b - c - x)

\* C20: filter_paeth(left, above, upper_left) returns the one of its
\* arguments whose distance to p = left + above - upper_left is smallest:
\* left when no distance is smaller than left's, else above when upper_left
\* is not nearer than above, else upper_left; and no i16 expression of it
\* overflows.
C20_PaethNearest ==
    pa_out # Pending =>
        LET a  == pa_in.a
            b  == pa_in.b
            c  == pa_in.c
            da == PaethDistance(a, b, c, a)
            db == PaethDistance(a, b, c, b)
            dc == PaethDistance(a, b, c, c)
        IN  /\ pa_out.tag = "Ok"
            /\ \A k \in DOMAIN paeth_terms(a, b, c) : i16(paeth_terms(a, b, c)[k])
            /\ PaethDistance(a, b, c, pa_out.val) <= da
            /\ PaethDistance(a, b, c, pa_out.val) <= db
            /\ PaethDistance(a, b, c, pa_out.val) <= dc
            /\ (da <= db /\ da <= dc) => pa_out.val = a
            /\ (~(da <= db /\ da <= dc) /\ db <= dc) => pa_out.val = b
            /\ (dc < da /\ dc < db) => pa_out.val = c

\* C20 happens: filter_paeth(3, 0, 1), where left and upper_left are equally
\* near, has returned
C20_Witness ==
    /\ pa_in = [a |-> 3, b |-> 0, c |-> 1]
    /\ pa_out # Pending

\* C21: in flate_decode with predictor > 10, whatever the length of the
\* inflated buffer, every iteration of the loop finds its row inside the
\* buffers: one tag byte and `columns` data bytes of inp from in_off, and
\* `columns` bytes of out from out_off, where out has rows * columns bytes;
\* and what is returned has rows * columns bytes.
C21_RowAccessInBounds ==
    LET columns == fl_params.columns
        rows    == Len(fl.inp) \div (columns + 1)
    IN  /\ (fl_pc = "loop" /\ fl.in_off < Len(fl.inp)) =>
              /\ Len(fl.out) = rows * columns
              /\ fl.in_off + 1 + columns <= Len(fl.inp)
              /\ fl.out_off + columns <= Len(fl.out)
        /\ (fl_pc = "done" /\ fl_params.predictor > 10 /\ fl_result.tag = "Ok") =>
              Len(fl_result.val) =
                  (Len(fl_inflated.val) \div (columns + 1)) * columns

\* C22: unfilter, for every predictor kind, every stride bpp >= 1 and rows
\* prev, inp and out of one length (rows shorter than bpp included), runs to
\* its end: no index it uses lies outside its row.
C22_UnfilterInBounds ==
    (/\ png.bpp >= 1
     /\ Len(png.prev) = Len(png.inp)
     /\ Len(png.out) = Len(png.inp)
     /\ png_unfiltered # Pending) => png_unfiltered.tag = "Ok"

=============================================================================
